---- MODULE Spec2Model ----
(***************************************************************************)
(* Model of convert_to_csv_exports.py: the reader of a zipped XML          *)
(* spreadsheet container (shared strings, workbook index, sheet rows) and  *)
(* the CSV writer.  Text is a sequence of one-character strings, so that   *)
(* normalisation, parsing and quoting are computed character by character. *)
(*                                                                         *)
(* Four specifications share the module:                                   *)
(*   SpecSheet    load_shared_strings followed by load_sheet_rows          *)
(*   SpecCsv      write_csv                                                *)
(*   SpecName     the sheet-name sanitisation of convert_xlsx_to_csv       *)
(*   SpecConvert  convert_xlsx_to_csv over an abstract archive             *)
(***************************************************************************)
EXTENDS Integers, Sequences, FiniteSets, TLC

VARIABLES
    \* SpecSheet
    sst,        \* the shared-string part handed to load_shared_strings
    shared,     \* the SharedStringTable it returned
    doc,        \* the <row> elements consumed so far, each a sequence of <c> elements
    elems,      \* the <c> elements consumed so far in the row being built
    cells,      \* load_sheet_rows: the row being built
    rows,       \* load_sheet_rows: the rows completed
    lpc,        \* position in load_shared_strings / load_sheet_rows
    \* SpecCsv
    table,      \* write_csv: the rows argument
    wi,         \* write_csv: number of rows written
    out,        \* write_csv: the characters written to the file
    wpc,        \* position in write_csv
    \* SpecName
    sheet_name, \* the sheet name being sanitised
    safe_name,  \* the sanitised name
    npc,        \* position
    \* SpecConvert
    archive,    \* the archive handle: "unopened", "open", "closed"
    wb,         \* the workbook definition part read by workbook_sheets
    rels,       \* the relationship manifest part read by workbook_relationships
    sheet_part, \* the sheet part stored in the archive
    requested,  \* the sheets argument
    sheet_map,  \* the workbook index
    pos,        \* number of requested sheets completely handled
    written,    \* the CSV files on disk, in the order written
    err,        \* the exception that ended the run
    cpc         \* position in convert_xlsx_to_csv

sheetVars == <<sst, shared, doc, elems, cells, rows, lpc>>
csvVars == <<table, wi, out, wpc>>
nameVars == <<sheet_name, safe_name, npc>>
convVars == <<archive, wb, rels, sheet_part, requested, sheet_map, pos, written, err, cpc>>
vars == <<sheetVars, csvVars, nameVars, convVars>>

\* A specification leaves the other specifications' variables at this value.
Idle == <<>>

SheetIdle ==
    /\ sst = Idle /\ shared = Idle /\ doc = Idle /\ elems = Idle
    /\ cells = Idle /\ rows = Idle /\ lpc = Idle
CsvIdle == table = Idle /\ wi = Idle /\ out = Idle /\ wpc = Idle
NameIdle == sheet_name = Idle /\ safe_name = Idle /\ npc = Idle
ConvIdle ==
    /\ archive = Idle /\ wb = Idle /\ rels = Idle /\ sheet_part = Idle /\ requested = Idle
    /\ sheet_map = Idle /\ pos = Idle /\ written = Idle /\ err = Idle /\ cpc = Idle

(***************************************************************************)
(* Bounds                                                                  *)
(***************************************************************************)
MaxCells == 2       \* <c> elements in one sheet part
MaxRows == 2        \* <row> elements in one sheet part
MaxSheets == 2      \* <sheet> elements in the workbook definition
MaxRequested == 2   \* requested sheet names
MaxNameLen == 4     \* characters in a sheet name to sanitise

(***************************************************************************)
(* Text                                                                    *)
(***************************************************************************)
CR == "\r"
LF == "\n"
\* The characters str.strip() removes (those that occur in the inputs).
Whitespace == {" ", "\t", CR, LF}

RECURSIVE LStrip(_)
LStrip(s) ==
    IF s = <<>> THEN s
    ELSE IF Head(s) \in Whitespace THEN LStrip(Tail(s)) ELSE s

RECURSIVE RStrip(_)
RStrip(s) ==
    IF s = <<>> THEN s
    ELSE IF s[Len(s)] \in Whitespace THEN RStrip(SubSeq(s, 1, Len(s) - 1)) ELSE s

\* str.strip()
Strip(s) == RStrip(LStrip(s))

\* str.replace(c, d) for a one-character c
Replace(s, c, d) == [i \in 1..Len(s) |-> IF s[i] = c THEN d ELSE s[i]]

\* "".join(parts)
RECURSIVE Join(_)
Join(parts) ==
    IF parts = <<>> THEN <<>> ELSE Head(parts) \o Join(Tail(parts))

\* An Optional[str]: None is <<>>, a string s is <<s>>.
None == <<>>
Some(s) == <<s>>

\* normalize without the final strip()
normalize_unstripped(value) ==
    IF value = None THEN <<>>
    ELSE Replace(Replace(value[1], CR, " "), LF, " ")

normalize(value) ==
    IF value = None THEN <<>>
    ELSE Strip(Replace(Replace(value[1], CR, " "), LF, " "))

(***************************************************************************)
(* excel_column_index                                                      *)
(***************************************************************************)
Upper == <<"A","B","C","D","E","F","G","H","I","J","K","L","M",
           "N","O","P","Q","R","S","T","U","V","W","X","Y","Z">>
Lower == <<"a","b","c","d","e","f","g","h","i","j","k","l","m",
           "n","o","p","q","r","s","t","u","v","w","x","y","z">>

\* str.upper() of one character
UpperChar(c) ==
    IF \E i \in 1..26 : Lower[i] = c
    THEN Upper[CHOOSE i \in 1..26 : Lower[i] = c]
    ELSE c

IsUpper(c) == \E i \in 1..26 : Upper[i] = c
\* ord(char) - ord("A") + 1
LetterValue(c) == CHOOSE i \in 1..26 : Upper[i] = c

\* the match of r"([A-Z]+)" at the start of s
RECURSIVE LeadingLetters(_)
LeadingLetters(s) ==
    IF s = <<>> \/ ~IsUpper(Head(s)) THEN <<>>
    ELSE <<Head(s)>> \o LeadingLetters(Tail(s))

RECURSIVE Base26(_, _)
Base26(letters, index) ==
    IF letters = <<>> THEN index
    ELSE Base26(Tail(letters), index * 26 + LetterValue(Head(letters)))

excel_column_index(reference) ==
    LET match == LeadingLetters([i \in 1..Len(reference) |-> UpperChar(reference[i])])
    IN  IF match = <<>> THEN 0 ELSE Base26(match, 0) - 1

(***************************************************************************)
(* int(str): optional surrounding whitespace, an optional sign, digits     *)
(* with single underscores between them.  ValueError is <<>>, n is <<n>>.  *)
(***************************************************************************)
Digits == <<"0","1","2","3","4","5","6","7","8","9">>
IsDigit(c) == \E i \in 1..10 : Digits[i] = c
DigitValue(c) == (CHOOSE i \in 1..10 : Digits[i] = c) - 1

WellFormedDigits(s) ==
    /\ s # <<>>
    /\ IsDigit(s[1])
    /\ IsDigit(s[Len(s)])
    /\ \A i \in 1..Len(s) : IsDigit(s[i]) \/ s[i] = "_"
    /\ \A i \in 1..(Len(s) - 1) : ~(s[i] = "_" /\ s[i + 1] = "_")

RECURSIVE DigitsValue(_, _)
DigitsValue(s, acc) ==
    IF s = <<>> THEN acc
    ELSE IF Head(s) = "_" THEN DigitsValue(Tail(s), acc)
    ELSE DigitsValue(Tail(s), acc * 10 + DigitValue(Head(s)))

ParseInt(text) ==
    LET t == Strip(text)
        signed == t # <<>> /\ t[1] \in {"+", "-"}
        body == IF signed THEN Tail(t) ELSE t
    IN  IF ~WellFormedDigits(body) THEN <<>>
        ELSE IF signed /\ t[1] = "-" THEN << 0 - DigitsValue(body, 0) >>
        ELSE << DigitsValue(body, 0) >>

\* shared[i] of a Python list: <<>> is IndexError, s is <<s>>.
ListIndex(list, i) ==
    IF 0 <= i /\ i < Len(list) THEN << list[i + 1] >>
    ELSE IF i < 0 /\ 0 - i <= Len(list) THEN << list[Len(list) + i + 1] >>
    ELSE <<>>

(***************************************************************************)
(* load_shared_strings                                                     *)
(*                                                                         *)
(* A part is [present, ok, body]: present is FALSE when archive.read       *)
(* raises KeyError, ok is FALSE when ET.fromstring raises ParseError.  The *)
(* body of the shared-string part is its <si> elements, each the sequence  *)
(* of its <t> descendants [text, preserve].                                *)
(***************************************************************************)
Run(text, preserve) == [text |-> text, preserve |-> preserve]
Part(body) == [present |-> TRUE, ok |-> TRUE, body |-> body]
MissingPart == [present |-> FALSE, ok |-> FALSE, body |-> <<>>]
MalformedPart == [present |-> TRUE, ok |-> FALSE, body |-> <<>>]

Fragment(node) == IF node.preserve THEN node.text ELSE Strip(node.text)

SharedEntry(entry) ==
    normalize(Some(Join([i \in 1..Len(entry) |-> Fragment(entry[i])])))

load_shared_strings(part) ==
    IF ~part.present THEN <<>>
    ELSE [i \in 1..Len(part.body) |-> SharedEntry(part.body[i])]

(***************************************************************************)
(* load_sheet_rows: one <c> element is [r, t, v, is]: the r attribute      *)
(* (<<>> when absent), the t attribute ("" when absent), the text of its   *)
(* <v> child (<<>> when the child or its text is absent) and the texts of  *)
(* its <is>/<t> children.                                                  *)
(***************************************************************************)
Cell(r, t, v, is) == [r |-> r, t |-> t, v |-> v, is |-> is]

\* "".join((node.text or "").strip() for node in inline)

InlineText(inline) == Join([i \in 1..Len(inline) |-> Strip(inline[i])])

\* try: shared[int(value.text)] except (ValueError, IndexError): value.text

SharedStringText(value, strings) ==
    LET n == ParseInt(value)
        hit == IF n = <<>> THEN <<>> ELSE ListIndex(strings, n[1])
    IN  IF hit = <<>> THEN value ELSE hit[1]

CellText(cell, strings) ==
    IF cell.t = "s" THEN
        IF cell.v # <<>> THEN SharedStringText(cell.v, strings) ELSE <<>>
    ELSE IF cell.t = "b" THEN
        IF cell.v = <<"1">> THEN <<"T","R","U","E">> ELSE <<"F","A","L","S","E">>
    ELSE IF cell.t = "inlineStr" THEN
        InlineText(cell.is)
    ELSE IF cell.v # <<>> THEN cell.v
    ELSE IF cell.is # <<>> THEN InlineText(cell.is)
    ELSE <<>>

\* index = excel_column_index(ref) if ref else len(cells)
CellIndex(cell, row) ==
    IF cell.r # <<>> THEN excel_column_index(cell.r) ELSE Len(row)

\* while len(cells) < index: cells.append("")
\* the padding loop ending one cell early
Pad_short(row, index) ==
    IF Len(row) < index THEN row \o [i \in 1..(index - Len(row) - 1) |-> <<>>] ELSE row

Pad(row, index) ==
    IF Len(row) < index THEN row \o [i \in 1..(index - Len(row)) |-> <<>>] ELSE row

\* the body of the loop over the <c> elements of a row

CellStep(row, cell, strings) ==
    Append(Pad(row, CellIndex(cell, row)), normalize(Some(CellText(cell, strings))))

(***************************************************************************)
(* Inputs of SpecSheet                                                     *)
(***************************************************************************)
Line1Line2 == <<"l","i","n","e","1",LF,"l","i","n","e","2">>

\* Three <si> entries: two runs of which the first keeps its whitespace, one
\* run with line breaks and outer whitespace, one plain run.
SstBody ==
    << << Run(<<"a"," ">>, TRUE), Run(<<" ","b"," ">>, FALSE) >>,
       << Run(<<" ","l","1",CR,LF,"l","2"," ">>, TRUE) >>,
       << Run(<<"z">>, FALSE) >> >>

SstParts == {MissingPart, MalformedPart, Part(SstBody)}

RefA == <<"A","1">>
RefB == <<"b","1">>
RefD == <<"D","1">>

\* Cells that carry a column reference, with a plain value.
RefCells ==
    {Cell(RefA, "", <<"x">>, <<>>), Cell(RefA, "", <<"y">>, <<>>),
     Cell(RefB, "n", <<"x">>, <<>>), Cell(RefD, "", <<"y">>, <<>>)}

\* Cells without a reference, one for each way the text is resolved.
TextCells ==
    {Cell(<<>>, "s", v, <<>>) :
        v \in {<<"1">>, <<"7">>, <<"-","1">>, <<"q"," ">>, <<" ","2"," ">>, <<>>}}
    \cup {Cell(<<>>, "b", v, <<>>) : v \in {<<"1">>, <<"0">>}}
    \cup {Cell(<<>>, "inlineStr", <<>>, is) :
        is \in { << <<"a"," ">>, <<"b">> >>, << <<" ","a",LF,"b"," ">> >>, <<>> }}
    \cup {Cell(<<>>, "", Line1Line2, <<>>),
          Cell(<<>>, "n", <<>>, << <<" ","q"," ">> >>),
          Cell(<<>>, "", <<>>, <<>>)}

CellElems == RefCells \cup TextCells

RECURSIVE CellCount(_)
CellCount(d) == IF d = <<>> THEN 0 ELSE Len(Head(d)) + CellCount(Tail(d))

(***************************************************************************)
(* SpecSheet: load_shared_strings, then load_sheet_rows                    *)
(***************************************************************************)
InitSheet ==
    /\ sst = Idle /\ shared = <<>> /\ doc = <<>> /\ elems = <<>>
    /\ cells = <<>> /\ rows = <<>> /\ lpc = "shared"
    /\ CsvIdle /\ NameIdle /\ ConvIdle

\* load_shared_strings on a missing or well-formed part
LoadShared ==
    /\ lpc = "shared"
    /\ \E part \in SstParts :
        /\ ~part.present \/ part.ok
        /\ sst' = part
        /\ shared' = load_shared_strings(part)
    /\ lpc' = "sheet"
    /\ UNCHANGED <<doc, elems, cells, rows, csvVars, nameVars, convVars>>

\* load_shared_strings: ET.fromstring raises
LoadSharedFail ==
    /\ lpc = "shared"
    /\ \E part \in SstParts :
        /\ part.present /\ ~part.ok
        /\ sst' = part
    /\ lpc' = "failed"
    /\ UNCHANGED <<shared, doc, elems, cells, rows, csvVars, nameVars, convVars>>

\* load_sheet_rows: archive.read and ET.fromstring succeed, rows = []
ReadSheet ==
    /\ lpc = "sheet"
    /\ rows' = <<>>
    /\ lpc' = "rows"
    /\ UNCHANGED <<sst, shared, doc, elems, cells, csvVars, nameVars, convVars>>

\* load_sheet_rows: archive.read raises KeyError or ET.fromstring raises
ReadSheetFail ==
    /\ lpc = "sheet"
    /\ lpc' = "failed"
    /\ UNCHANGED <<sst, shared, doc, elems, cells, rows, csvVars, nameVars, convVars>>

\* the next <row> element: cells = []
RowStart ==
    /\ lpc = "rows"
    /\ Len(doc) < MaxRows
    /\ cells' = <<>>
    /\ elems' = <<>>
    /\ lpc' = "cells"
    /\ UNCHANGED <<sst, shared, doc, rows, csvVars, nameVars, convVars>>

\* the next <c> element of the row
CellElement ==
    /\ lpc = "cells"
    /\ CellCount(doc) + Len(elems) < MaxCells
    /\ \E cell \in CellElems :
        /\ elems' = Append(elems, cell)
        /\ cells' = CellStep(cells, cell, shared)
    /\ UNCHANGED <<sst, shared, doc, rows, lpc, csvVars, nameVars, convVars>>

\* rows.append(cells)
RowEnd ==
    /\ lpc = "cells"
    /\ rows' = Append(rows, cells)
    /\ doc' = Append(doc, elems)
    /\ lpc' = "rows"
    /\ UNCHANGED <<sst, shared, elems, cells, csvVars, nameVars, convVars>>

\* return rows
ReturnRows ==
    /\ lpc = "rows"
    /\ lpc' = "done"
    /\ UNCHANGED <<sst, shared, doc, elems, cells, rows, csvVars, nameVars, convVars>>

NextSheet ==
    \/ LoadShared
    \/ LoadSharedFail
    \/ ReadSheet
    \/ ReadSheetFail
    \/ RowStart
    \/ CellElement
    \/ RowEnd
    \/ ReturnRows

SpecSheet == InitSheet /\ [][NextSheet]_vars

(***************************************************************************)
(* Properties of load_shared_strings and load_sheet_rows (SpecSheet)       *)
(***************************************************************************)
\* The <c> element handled last in the row being built, and the text stored for it.
CellHandled == lpc = "cells" /\ elems # <<>>
LastCell == elems[Len(elems)]
LastText == cells[Len(cells)]

NoLineBreak(s) == \A i \in 1..Len(s) : s[i] # CR /\ s[i] # LF
NoOuterWhitespace(s) ==
    s = <<>> \/ (s[1] \notin Whitespace /\ s[Len(s)] \notin Whitespace)
IsNormalized(s) == NoLineBreak(s) /\ NoOuterWhitespace(s)

\* result is source with each CR and each LF turned into one space and the
\* outer whitespace removed: a window of source, all of whose outside is whitespace.
NormalizationOf(source, result) ==
    /\ NoOuterWhitespace(result)
    /\ \E i \in 0..Len(source) :
        /\ i + Len(result) <= Len(source)
        /\ \A k \in 1..Len(result) :
            result[k] = (IF source[i + k] \in {CR, LF} THEN " " ELSE source[i + k])
        /\ \A k \in 1..Len(source) :
            (k <= i \/ k > i + Len(result)) => source[k] \in Whitespace

\* the cell takes its text from its <v> child as it stands
PlainValueCell(cell) == cell.t \notin {"s", "b", "inlineStr"} /\ cell.v # <<>>

\* C2: a shared-string cell whose value text is no number, or a number outside
\* 0..len(shared)-1, gets the normalized value text; a valid index gets
\* the table entry at that index.
C2_SharedStringFallback ==
    (CellHandled /\ LastCell.t = "s" /\ LastCell.v # <<>>) =>
        LET n == ParseInt(LastCell.v)
        IN  IF n # <<>> /\ n[1] >= 0 /\ n[1] <= Len(shared) - 1
            THEN LastText = shared[n[1] + 1]
            ELSE LastText = normalize(Some(LastCell.v))

\* C3: a cell whose explicit reference decodes to an index at or beyond the
\* length of the row being built is stored at exactly that index, after
\* empty-string padding; a cell without a reference is stored at the next
\* index; cells at A and D give the 4-wide row [v_A, "", "", v_D].
C3_PadToExplicitColumn ==
    [][ (lpc = "cells" /\ lpc' = "cells" /\ Len(elems') = Len(elems) + 1) =>
        LET cell == elems'[Len(elems')]
            index == excel_column_index(cell.r)
            text == normalize(Some(CellText(cell, shared)))
        IN  /\ (cell.r # <<>> /\ index >= Len(cells)) =>
                /\ Len(cells') = index + 1
                /\ SubSeq(cells', 1, Len(cells)) = cells
                /\ \A k \in (Len(cells) + 1)..index : cells'[k] = <<>>
                /\ cells'[index + 1] = text
            /\ cell.r = <<>> =>
                /\ Len(cells') = Len(cells) + 1
                /\ SubSeq(cells', 1, Len(cells)) = cells
                /\ cells'[Len(cells) + 1] = text
            /\ elems' = << Cell(RefA, "", <<"x">>, <<>>), Cell(RefD, "", <<"y">>, <<>>) >> =>
                cells' = << <<"x">>, <<>>, <<>>, <<"y">> >>
      ]_vars

\* cells at A and D were handled and the row is [x, "", "", y]
C3_Witness ==
    /\ lpc = "cells"
    /\ elems = << Cell(RefA, "", <<"x">>, <<>>), Cell(RefD, "", <<"y">>, <<>>) >>
    /\ cells = << <<"x">>, <<>>, <<>>, <<"y">> >>

\* C4: every cell of every row and every shared-string entry is free of CR
\* and LF and of outer whitespace; a plain value and a one-run preserved
\* shared string are their source with each CR and LF turned into a space and
\* then stripped; "line1\nline2" gives "line1 line2"; no value gives "".
C4_TextNormalized ==
    lpc \in {"sheet", "rows", "cells", "done"} =>
        /\ \A i \in 1..Len(shared) : IsNormalized(shared[i])
        /\ \A i \in 1..Len(rows) : \A k \in 1..Len(rows[i]) : IsNormalized(rows[i][k])
        /\ \A k \in 1..Len(cells) : IsNormalized(cells[k])
        /\ \A i \in 1..Len(shared) :
            (Len(sst.body[i]) = 1 /\ sst.body[i][1].preserve) =>
                NormalizationOf(sst.body[i][1].text, shared[i])
        /\ (CellHandled /\ PlainValueCell(LastCell)) =>
                NormalizationOf(LastCell.v, LastText)
        /\ (CellHandled /\ LastCell = Cell(<<>>, "", Line1Line2, <<>>)) =>
                LastText = <<"l","i","n","e","1"," ","l","i","n","e","2">>
        /\ (CellHandled /\ LastCell = Cell(<<>>, "", <<>>, <<>>)) => LastText = <<>>

\* the shared strings were read from a part with line breaks, one row holds
\* a padding cell before a referenced cell and another holds "line1 line2"
\* from a value with a line feed
C4_Witness ==
    /\ lpc = "done"
    /\ Len(shared) = 3
    /\ shared[2] = <<"l","1"," "," ","l","2">>
    /\ \E i \in 1..Len(rows) :
        /\ rows[i] = << <<>>, <<"x">> >>
        /\ doc[i][1].r = RefB
    /\ \E i \in 1..Len(rows) :
        /\ rows[i] = << <<"l","i","n","e","1"," ","l","i","n","e","2">> >>
        /\ doc[i][1].v = Line1Line2

\* The claimed position of every referenced cell, the last cell winning when a
\* reference is repeated, and empty cells in the columns no cell names.
ColumnOrdered(input, row) ==
    /\ \A j \in 1..Len(input) :
        (/\ input[j].r # <<>>
         /\ \A l \in (j + 1)..Len(input) :
                input[l].r = <<>>
                \/ excel_column_index(input[l].r) # excel_column_index(input[j].r)) =>
            /\ excel_column_index(input[j].r) + 1 <= Len(row)
            /\ row[excel_column_index(input[j].r) + 1]
                    = normalize(Some(CellText(input[j], shared)))
    /\ (\A j \in 1..Len(input) : input[j].r # <<>>) =>
        \A k \in 1..Len(row) :
            (\A j \in 1..Len(input) : excel_column_index(input[j].r) + 1 # k) =>
                row[k] = <<>>

\* C8: whatever the order of the cell elements and of their references, the
\* text of each referenced cell is at the row position equal to its decoded
\* index and every skipped column is an empty-string cell.
C8_ColumnOrder ==
    lpc \in {"rows", "cells", "done"} =>
        /\ \A i \in 1..Len(rows) : ColumnOrdered(doc[i], rows[i])
        /\ lpc = "cells" => ColumnOrdered(elems, cells)

\* C9: the text of an inline-string cell is the normalization of the
\* concatenation of its runs' texts, interior whitespace kept.
C9_InlineConcatenation ==
    (CellHandled /\ LastCell.t = "inlineStr") =>
        LastText = normalize(Some(Join(LastCell.is)))

(***************************************************************************)
(* write_csv: csv.writer(handle, lineterminator="\r\n") with the default   *)
(* dialect (delimiter ",", quotechar '"', doublequote, QUOTE_MINIMAL).     *)
(***************************************************************************)
Quote == "\""
Delimiter == ","
LineTerminator == <<CR, LF>>

\* QUOTE_MINIMAL: the field holds the delimiter, the quote character or a
\* character of the line terminator
NeedsQuoting(field) ==
    \E i \in 1..Len(field) : field[i] \in {Delimiter, Quote, CR, LF}

RECURSIVE DoubleQuotes(_)
DoubleQuotes(field) ==
    IF field = <<>> THEN <<>>
    ELSE IF Head(field) = Quote THEN <<Quote, Quote>> \o DoubleQuotes(Tail(field))
    ELSE <<Head(field)>> \o DoubleQuotes(Tail(field))

\* a quoted field whose quote characters are not doubled
EncodeField_undoubled(field) ==
    IF NeedsQuoting(field) THEN <<Quote>> \o field \o <<Quote>> ELSE field

EncodeField(field) ==
    IF NeedsQuoting(field) THEN <<Quote>> \o DoubleQuotes(field) \o <<Quote>> ELSE field

RECURSIVE JoinFields(_)
JoinFields(fields) ==
    IF fields = <<>> THEN <<>>
    ELSE IF Len(fields) = 1 THEN EncodeField(fields[1])
    ELSE EncodeField(Head(fields)) \o <<Delimiter>> \o JoinFields(Tail(fields))

\* writer.writerow(list(row)): a record of one empty field is written quoted

writerow(row) ==
    (IF row = << <<>> >> THEN <<Quote, Quote>> ELSE JoinFields(row)) \o LineTerminator

\* the content of the file write_csv leaves
RECURSIVE write_csv(_)
write_csv(rs) ==
    IF rs = <<>> THEN <<>> ELSE writerow(Head(rs)) \o write_csv(Tail(rs))

(***************************************************************************)
(* Inputs of SpecCsv: the tables of at most MaxRows rows and MaxCells      *)
(* cells, the cells from CsvTexts.                                         *)
(***************************************************************************)
HeSaidHi == <<"H","e"," ","s","a","i","d"," ",Quote,"h","i",Quote>>

CsvTexts ==
    { <<>>, <<"x">>, <<Delimiter>>, <<Quote>>, <<LF>>, <<"y",Delimiter,"z">>, HeSaidHi }

RowsOfWidth(w) == [1..w -> CsvTexts]

RECURSIVE Tables(_, _)
Tables(r, c) ==
    IF r = 0 THEN { <<>> }
    ELSE { <<>> } \cup
         UNION { { <<row>> \o t : row \in RowsOfWidth(w), t \in Tables(r - 1, c - w) } :
                 w \in 0..c }

(***************************************************************************)
(* SpecCsv: write_csv                                                      *)
(***************************************************************************)
InitCsv ==
    /\ table \in Tables(MaxRows, MaxCells)
    /\ wi = 0 /\ out = <<>> /\ wpc = "open"
    /\ SheetIdle /\ NameIdle /\ ConvIdle

\* output_path.open("w", newline="", encoding="utf-8")
OpenOutput ==
    /\ wpc = "open"
    /\ out' = <<>>
    /\ wpc' = "rows"
    /\ UNCHANGED <<table, wi, sheetVars, nameVars, convVars>>

\* output_path.open raises OSError
OpenOutputFail ==
    /\ wpc = "open"
    /\ wpc' = "failed"
    /\ UNCHANGED <<table, wi, out, sheetVars, nameVars, convVars>>

\* for row in rows: writer.writerow(list(row))
WriteRow ==
    /\ wpc = "rows"
    /\ wi < Len(table)
    /\ out' = out \o writerow(table[wi + 1])
    /\ wi' = wi + 1
    /\ UNCHANGED <<table, wpc, sheetVars, nameVars, convVars>>

\* the with block closes the handle
CloseOutput ==
    /\ wpc = "rows"
    /\ wi = Len(table)
    /\ wpc' = "done"
    /\ UNCHANGED <<table, wi, out, sheetVars, nameVars, convVars>>

NextCsv ==
    \/ OpenOutput
    \/ OpenOutputFail
    \/ WriteRow
    \/ CloseOutput

SpecCsv == InitCsv /\ [][NextCsv]_vars

(***************************************************************************)
(* Properties of write_csv (SpecCsv)                                       *)
(***************************************************************************)
\* A CSV text read back: records end at a CRLF outside quotes, fields at a
\* delimiter outside quotes, a doubled quote inside quotes is one quote; an
\* empty record has no field.
RECURSIVE Decode(_, _, _, _, _, _, _)
Decode(s, i, quoted, field, record, begun, acc) ==
    IF i > Len(s) THEN
        IF begun THEN Append(acc, Append(record, field)) ELSE acc
    ELSE IF quoted THEN
        IF s[i] = Quote /\ i < Len(s) /\ s[i + 1] = Quote
        THEN Decode(s, i + 2, TRUE, Append(field, Quote), record, TRUE, acc)
        ELSE IF s[i] = Quote
        THEN Decode(s, i + 1, FALSE, field, record, TRUE, acc)
        ELSE Decode(s, i + 1, TRUE, Append(field, s[i]), record, TRUE, acc)
    ELSE IF s[i] = Quote
        THEN Decode(s, i + 1, TRUE, field, record, TRUE, acc)
    ELSE IF s[i] = Delimiter
        THEN Decode(s, i + 1, FALSE, <<>>, Append(record, field), TRUE, acc)
    ELSE IF s[i] = CR /\ i < Len(s) /\ s[i + 1] = LF
        THEN Decode(s, i + 2, FALSE, <<>>, <<>>, FALSE,
                    Append(acc, IF begun THEN Append(record, field) ELSE <<>>))
    ELSE Decode(s, i + 1, FALSE, Append(field, s[i]), record, TRUE, acc)

DecodeCsv(s) == Decode(s, 1, FALSE, <<>>, <<>>, FALSE, <<>>)

EndsWithCRLF(s) == Len(s) >= 2 /\ s[Len(s) - 1] = CR /\ s[Len(s)] = LF

\* C6: one record per row in row order, each with exactly the row's fields
\* in column order and each followed by CRLF; a field holding the delimiter,
\* a quote or a line terminator is wrapped in quotes with its quotes
\* doubled; ["x", "y,z"] gives x,"y,z" CRLF and He said "hi" gives
\* "He said ""hi""".
C6_CsvRecords ==
    wpc \in {"rows", "done"} =>
        /\ DecodeCsv(out) = SubSeq(table, 1, wi)
        /\ wi > 0 => EndsWithCRLF(out)
        /\ (wi = 1 /\ Len(table[1]) = 1 /\ NeedsQuoting(table[1][1])) =>
            /\ out[1] = Quote
            /\ out[Len(out) - 2] = Quote
            /\ Len(out) = Len(table[1][1]) + 4
                  + Cardinality({k \in 1..Len(table[1][1]) : table[1][1][k] = Quote})
        /\ (wi = 1 /\ table[1] = << <<"x">>, <<"y",Delimiter,"z">> >>) =>
            out = <<"x", ",", Quote, "y", ",", "z", Quote, CR, LF>>
        /\ (wi = 1 /\ table[1] = << HeSaidHi >>) =>
            out = <<Quote,"H","e"," ","s","a","i","d"," ",Quote,Quote,"h","i",Quote,Quote,Quote,CR,LF>>

\* the row ["x", "y,z"] was written and the file closed
C6_Witness ==
    /\ wpc = "done"
    /\ table = << << <<"x">>, <<"y",Delimiter,"z">> >> >>
    /\ wi = 1
    /\ out = <<"x", ",", Quote, "y", ",", "z", Quote, CR, LF>>

(***************************************************************************)
(* The output file name of convert_xlsx_to_csv:                            *)
(*   re.sub(r"[^A-Za-z0-9_.-]+", "_", sheet_name).strip("_") or "Sheet"    *)
(***************************************************************************)
IsSafeChar(c) ==
    \/ IsUpper(c)
    \/ \E i \in 1..26 : Lower[i] = c
    \/ IsDigit(c)
    \/ c \in {"_", ".", "-"}

RECURSIVE DropUnsafe(_)
DropUnsafe(s) ==
    IF s = <<>> \/ IsSafeChar(Head(s)) THEN s ELSE DropUnsafe(Tail(s))

\* re.sub(r"[^A-Za-z0-9_.-]", "_", s): every unsafe character on its own
RECURSIVE SubUnsafeEach(_)
SubUnsafeEach(s) ==
    IF s = <<>> THEN <<>>
    ELSE IF IsSafeChar(Head(s)) THEN <<Head(s)>> \o SubUnsafeEach(Tail(s))
    ELSE <<"_">> \o SubUnsafeEach(Tail(s))

\* re.sub(r"[^A-Za-z0-9_.-]+", "_", s)
RECURSIVE SubUnsafeRuns(_)
SubUnsafeRuns(s) ==
    IF s = <<>> THEN <<>>
    ELSE IF IsSafeChar(Head(s)) THEN <<Head(s)>> \o SubUnsafeRuns(Tail(s))
    ELSE <<"_">> \o SubUnsafeRuns(DropUnsafe(s))

RECURSIVE LStripUnderscore(_)
LStripUnderscore(s) ==
    IF s # <<>> /\ Head(s) = "_" THEN LStripUnderscore(Tail(s)) ELSE s

RECURSIVE RStripUnderscore(_)
RStripUnderscore(s) ==
    IF s # <<>> /\ s[Len(s)] = "_" THEN RStripUnderscore(SubSeq(s, 1, Len(s) - 1)) ELSE s

\* str.strip("_")
StripUnderscore(s) == RStripUnderscore(LStripUnderscore(s))

DefaultLabel == <<"S","h","e","e","t">>

\* the pattern without its "+": every unsafe character replaced on its own
SafeName_each(name) ==
    IF StripUnderscore(SubUnsafeEach(name)) = <<>> THEN DefaultLabel
    ELSE StripUnderscore(SubUnsafeEach(name))

SafeName(name) ==
    IF StripUnderscore(SubUnsafeRuns(name)) = <<>> THEN DefaultLabel
    ELSE StripUnderscore(SubUnsafeRuns(name))

(***************************************************************************)
(* SpecName: the sanitisation applied to every sheet name over a small     *)
(* alphabet: a letter, the underscore, the dot and two unsafe characters.  *)
(***************************************************************************)
NameAlphabet == {"a", "_", ".", " ", "/"}
SheetNames == UNION { [1..n -> NameAlphabet] : n \in 0..MaxNameLen }

InitName ==
    /\ sheet_name \in SheetNames
    /\ safe_name = <<>> /\ npc = "start"
    /\ SheetIdle /\ CsvIdle /\ ConvIdle

Sanitize ==
    /\ npc = "start"
    /\ safe_name' = SafeName(sheet_name)
    /\ npc' = "done"
    /\ UNCHANGED <<sheet_name, sheetVars, csvVars, convVars>>

NextName == Sanitize

SpecName == InitName /\ [][NextName]_vars

\* s without the elements that repeat their predecessor c
RECURSIVE CollapseRepeats(_, _)
CollapseRepeats(s, c) ==
    IF Len(s) < 2 THEN s
    ELSE IF s[1] = c /\ s[2] = c THEN CollapseRepeats(Tail(s), c)
    ELSE <<s[1]>> \o CollapseRepeats(Tail(s), c)

Trimmed(s, c) ==
    IF \A i \in 1..Len(s) : s[i] = c THEN <<>>
    ELSE SubSeq(s, CHOOSE i \in 1..Len(s) : s[i] # c /\ \A k \in 1..(i - 1) : s[k] = c,
                   CHOOSE j \in 1..Len(s) : s[j] # c /\ \A k \in (j + 1)..Len(s) : s[k] = c)

OrDefault(s) == IF s = <<>> THEN DefaultLabel ELSE s

\* C5 as stated: every unsafe character becomes an underscore, repeats are
\* collapsed so that no two underscores are consecutive, outer underscores
\* are trimmed, and an empty result is the default label.
C5_NoConsecutiveUnderscores ==
    npc = "done" =>
        /\ safe_name =
            OrDefault(Trimmed(CollapseRepeats(
                [i \in 1..Len(sheet_name) |->
                    IF IsSafeChar(sheet_name[i]) THEN sheet_name[i] ELSE "_"], "_"), "_"))
        /\ \A i \in 1..(Len(safe_name) - 1) : ~(safe_name[i] = "_" /\ safe_name[i + 1] = "_")

\* C5 amended: every maximal run of unsafe characters becomes one
\* underscore (the underscores of the name itself are kept as they are),
\* outer underscores are trimmed, and an empty result is the default label.
\* "#" stands for an unsafe character while the runs are collapsed.
C5_UnsafeRunsCollapsed ==
    npc = "done" =>
        /\ safe_name =
            OrDefault(Trimmed(
                LET marked == CollapseRepeats(
                        [i \in 1..Len(sheet_name) |->
                            IF IsSafeChar(sheet_name[i]) THEN sheet_name[i] ELSE "#"], "#")
                IN  [i \in 1..Len(marked) |-> IF marked[i] = "#" THEN "_" ELSE marked[i]],
                "_"))
        /\ \A i \in 1..Len(safe_name) : IsSafeChar(safe_name[i])
        /\ safe_name # <<>>
        /\ safe_name[1] # "_" /\ safe_name[Len(safe_name)] # "_"

\* a name with a run of two unsafe characters between letters, and an
\* all-unsafe name, were sanitised
C5_Witness ==
    /\ npc = "done"
    /\ \/ sheet_name = <<"a", " ", "/">> /\ safe_name = <<"a">>
       \/ sheet_name = <<" ", "_", "/">> /\ safe_name = DefaultLabel

(***************************************************************************)
(* workbook_relationships and workbook_sheets                              *)
(*                                                                         *)
(* The manifest part's body is its <Relationship> elements [id, target],   *)
(* the workbook part's body its <sheet> elements [name, rid]; an absent    *)
(* attribute is "" (an id) or <<>> (a name, a target).  A mapping is a     *)
(* set of [key, value] entries, one for each key.                           *)
(***************************************************************************)
Relationship(id, target) == [id |-> id, target |-> target]
SheetElement(name, rid) == [name |-> name, rid |-> rid]

EmptyMap == {}
Keys(map) == {e.key : e \in map}
\* map.get(key) for a key of the map
Get(map, key) == (CHOOSE e \in map : e.key = key).value
\* map[key] = value
Put(map, key, value) ==
    {e \in map : e.key # key} \cup {[key |-> key, value |-> value]}

RECURSIVE CollectRelationships(_, _)
CollectRelationships(body, mapping) ==
    IF body = <<>> THEN mapping
    ELSE IF Head(body).id # "" /\ Head(body).target # <<>>
    THEN CollectRelationships(Tail(body), Put(mapping, Head(body).id, Head(body).target))
    ELSE CollectRelationships(Tail(body), mapping)

\* {} when the manifest part is missing
workbook_relationships(part) ==
    IF ~part.present THEN EmptyMap ELSE CollectRelationships(part.body, EmptyMap)

StartsWith(s, prefix) ==
    Len(s) >= Len(prefix) /\ SubSeq(s, 1, Len(prefix)) = prefix

RECURSIVE LStripSlash(_)
LStripSlash(s) ==
    IF s # <<>> /\ Head(s) = "/" THEN LStripSlash(Tail(s)) ELSE s

XlDir == <<"x", "l", "/">>

SheetPath(target) ==
    IF StartsWith(target, <<"/">>) THEN LStripSlash(target)
    ELSE IF StartsWith(target, XlDir) THEN target
    ELSE XlDir \o target

\* the loop over the <sheet> elements, ended by the first one without a target
RECURSIVE CollectSheets_break(_, _, _)
CollectSheets_break(body, relations, sheets) ==
    IF body = <<>> THEN sheets
    ELSE IF Head(body).name = <<>> \/ Head(body).rid = ""
    THEN CollectSheets_break(Tail(body), relations, sheets)
    ELSE IF Head(body).rid \notin Keys(relations)
    THEN sheets
    ELSE CollectSheets_break(Tail(body), relations,
            Put(sheets, Head(body).name, SheetPath(Get(relations, Head(body).rid))))

\* the loop over the <sheet> elements
RECURSIVE CollectSheets(_, _, _)
CollectSheets(body, relations, sheets) ==
    IF body = <<>> THEN sheets
    ELSE IF Head(body).name = <<>> \/ Head(body).rid = ""
    THEN CollectSheets(Tail(body), relations, sheets)
    ELSE IF Head(body).rid \notin Keys(relations)
    THEN CollectSheets(Tail(body), relations, sheets)
    ELSE IF Get(relations, Head(body).rid) = <<>>
    THEN CollectSheets(Tail(body), relations, sheets)
    ELSE CollectSheets(Tail(body), relations,
            Put(sheets, Head(body).name, SheetPath(Get(relations, Head(body).rid))))

workbook_sheets(workbook, manifest) ==
    CollectSheets(workbook.body, workbook_relationships(manifest), EmptyMap)

\* workbook_sheets raises: archive.read of the workbook part raises KeyError
\* or ET.fromstring raises ParseError on one of the two parts; a missing
\* manifest part is caught in workbook_relationships
workbook_sheets_raises(workbook, manifest) ==
    \/ ~workbook.present
    \/ ~workbook.ok
    \/ manifest.present /\ ~manifest.ok

(***************************************************************************)
(* load_sheet_rows as a function of a whole sheet part                     *)
(***************************************************************************)
RECURSIVE RowCells(_, _, _)
RowCells(row, strings, acc) ==
    IF row = <<>> THEN acc
    ELSE RowCells(Tail(row), strings, CellStep(acc, Head(row), strings))

load_sheet_rows(part, strings) ==
    [i \in 1..Len(part.body) |-> RowCells(part.body[i], strings, <<>>)]

(***************************************************************************)
(* Inputs of SpecConvert                                                   *)
(***************************************************************************)
InputPath == "book.xlsx"
Stem == <<"b","o","o","k">>

NameEvents == <<"E","v"," ","1">>
NameSettings == <<"S","e","t">>
NameGhost == <<"G">>                \* declared by no workbook

RequestedNames == {NameEvents, NameSettings, NameGhost}
Requests == UNION { [1..n -> RequestedNames] : n \in 0..MaxRequested }

\* "rId1" may have a manifest entry, "rId2" never has one.
SheetElements ==
    { SheetElement(NameEvents, "rId1"), SheetElement(NameSettings, "rId1"),
      SheetElement(NameSettings, "rId2"), SheetElement(NameEvents, ""),
      SheetElement(<<>>, "rId1") }

Workbooks ==
    {MissingPart, MalformedPart}
    \cup { Part(body) : body \in UNION { [1..n -> SheetElements] : n \in 0..MaxSheets } }

SheetFile == <<"s","1">>
SheetPart1Path == XlDir \o SheetFile

\* the three forms of a target, a target of one slash, and no target
Manifests ==
    {MissingPart, MalformedPart, Part(<<>>)}
    \cup { Part(<< Relationship("rId1", target) >>) :
            target \in { <<"/">> \o SheetPart1Path, SheetPart1Path, SheetFile, <<"/">>, <<>> } }

SheetBody ==
    << << Cell(RefA, "s", <<"0">>, <<>>), Cell(RefD, "", <<"y",",","z">>, <<>>) >>,
       << Cell(<<>>, "inlineStr", <<>>, << <<"q",LF>> >>) >> >>

SheetParts == {MissingPart, MalformedPart, Part(SheetBody)}

\* archive.read(path): the one sheet part of the archive, or KeyError
Member(path) == IF path = SheetPart1Path THEN sheet_part ELSE MissingPart

OutputName(name) == Stem \o <<"_">> \o SafeName(name) \o <<".","c","s","v">>

NoError == [stage |-> "none", kind |-> "none", sheet |-> <<>>, source |-> ""]
Error(stage, kind) == [stage |-> stage, kind |-> kind, sheet |-> <<>>, source |-> ""]
\* the error without the sheet name and the path
SheetNotFound_unnamed(name) == Error("lookup", "ValueError")
\* ValueError(f"Sheet '{sheet_name}' not found in {input_path}")
SheetNotFound(name) ==
    [stage |-> "lookup", kind |-> "ValueError", sheet |-> name, source |-> InputPath]

\* a block left without closing the handle
ExitWith_leak(handle) == handle
\* the with statement leaves the block: ZipFile.__exit__ closes the handle
ExitWith(handle) == "closed"

\* sheet_map.get(sheet_name) is None or ""
Unresolved(name) ==
    IF name \notin Keys(sheet_map) THEN TRUE ELSE Get(sheet_map, name) = <<>>

convRest == <<sst, doc, elems, cells, rows, lpc, csvVars, nameVars>>

(***************************************************************************)
(* SpecConvert: convert_xlsx_to_csv                                        *)
(***************************************************************************)
InitConvert ==
    /\ archive = "unopened"
    /\ wb = Idle /\ rels = Idle
    /\ sheet_part \in SheetParts
    /\ requested \in Requests
    /\ sheet_map = EmptyMap /\ pos = 0 /\ written = <<>>
    /\ err = NoError /\ cpc = "open"
    /\ shared = <<>>
    /\ sst = Idle /\ doc = Idle /\ elems = Idle /\ cells = Idle /\ rows = Idle /\ lpc = Idle
    /\ CsvIdle /\ NameIdle

\* zipfile.ZipFile(input_path)
OpenArchive ==
    /\ cpc = "open"
    /\ archive' = "open"
    /\ cpc' = "shared"
    /\ UNCHANGED <<wb, rels, sheet_part, requested, sheet_map, pos, written, err, shared, convRest>>

\* zipfile.ZipFile(input_path) raises: the with block is never entered
OpenArchiveFail ==
    /\ cpc = "open"
    /\ err' = Error("open", "BadZipFile")
    /\ cpc' = "done"
    /\ UNCHANGED <<archive, wb, rels, sheet_part, requested, sheet_map, pos, written, shared, convRest>>

\* shared = load_shared_strings(archive)
ConvertLoadShared ==
    /\ cpc = "shared"
    /\ \E part \in SstParts :
        /\ ~part.present \/ part.ok
        /\ shared' = load_shared_strings(part)
    /\ cpc' = "index"
    /\ UNCHANGED <<archive, wb, rels, sheet_part, requested, sheet_map, pos, written, err, convRest>>

\* load_shared_strings raises ParseError
ConvertLoadSharedFail ==
    /\ cpc = "shared"
    /\ \E part \in SstParts : part.present /\ ~part.ok
    /\ err' = Error("shared", "ParseError")
    /\ archive' = ExitWith(archive)
    /\ cpc' = "done"
    /\ UNCHANGED <<wb, rels, sheet_part, requested, sheet_map, pos, written, shared, convRest>>

\* sheet_map = workbook_sheets(archive)
BuildIndex ==
    /\ cpc = "index"
    /\ \E workbook \in Workbooks, manifest \in Manifests :
        /\ ~workbook_sheets_raises(workbook, manifest)
        /\ wb' = workbook
        /\ rels' = manifest
        /\ sheet_map' = workbook_sheets(workbook, manifest)
    /\ cpc' = "loop"
    /\ UNCHANGED <<archive, sheet_part, requested, pos, written, err, shared, convRest>>

\* workbook_sheets raises KeyError or ParseError
BuildIndexFail ==
    /\ cpc = "index"
    /\ \E workbook \in Workbooks, manifest \in Manifests :
        /\ workbook_sheets_raises(workbook, manifest)
        /\ wb' = workbook
        /\ rels' = manifest
        /\ err' = IF ~workbook.present THEN Error("index", "KeyError")
                  ELSE Error("index", "ParseError")
    /\ archive' = ExitWith(archive)
    /\ cpc' = "done"
    /\ UNCHANGED <<sheet_part, requested, sheet_map, pos, written, shared, convRest>>

\* the next requested sheet has no path: raise ValueError
RaiseSheetNotFound ==
    /\ cpc = "loop"
    /\ pos < Len(requested)
    /\ Unresolved(requested[pos + 1])
    /\ err' = SheetNotFound(requested[pos + 1])
    /\ archive' = ExitWith(archive)
    /\ cpc' = "done"
    /\ UNCHANGED <<wb, rels, sheet_part, requested, sheet_map, pos, written, shared, convRest>>

\* load_sheet_rows raises: the part is missing (KeyError) or not well-formed
ReadRowsFail ==
    /\ cpc = "loop"
    /\ pos < Len(requested)
    /\ ~Unresolved(requested[pos + 1])
    /\ LET part == Member(Get(sheet_map, requested[pos + 1]))
       IN  /\ ~(part.present /\ part.ok)
           /\ err' = IF ~part.present THEN Error("read", "KeyError")
                     ELSE Error("read", "ParseError")
    /\ archive' = ExitWith(archive)
    /\ cpc' = "done"
    /\ UNCHANGED <<wb, rels, sheet_part, requested, sheet_map, pos, written, shared, convRest>>

\* the rows are loaded and write_csv raises OSError
WriteCsvFail ==
    /\ cpc = "loop"
    /\ pos < Len(requested)
    /\ ~Unresolved(requested[pos + 1])
    /\ LET part == Member(Get(sheet_map, requested[pos + 1]))
       IN  part.present /\ part.ok
    /\ err' = Error("write", "OSError")
    /\ archive' = ExitWith(archive)
    /\ cpc' = "done"
    /\ UNCHANGED <<wb, rels, sheet_part, requested, sheet_map, pos, written, shared, convRest>>

\* the rows are loaded and written to <stem>_<safe_name>.csv
WriteSheet ==
    /\ cpc = "loop"
    /\ pos < Len(requested)
    /\ ~Unresolved(requested[pos + 1])
    /\ LET part == Member(Get(sheet_map, requested[pos + 1]))
       IN  /\ part.present /\ part.ok
           /\ written' = Append(written,
                [sheet |-> requested[pos + 1],
                 file |-> OutputName(requested[pos + 1]),
                 content |-> write_csv(load_sheet_rows(part, shared))])
    /\ pos' = pos + 1
    /\ UNCHANGED <<archive, wb, rels, sheet_part, requested, sheet_map, err, cpc, shared, convRest>>

\* the loop is exhausted and the with block is left
Finish ==
    /\ cpc = "loop"
    /\ pos = Len(requested)
    /\ archive' = ExitWith(archive)
    /\ cpc' = "done"
    /\ UNCHANGED <<wb, rels, sheet_part, requested, sheet_map, pos, written, err, shared, convRest>>

NextConvert ==
    \/ OpenArchive
    \/ OpenArchiveFail
    \/ ConvertLoadShared
    \/ ConvertLoadSharedFail
    \/ BuildIndex
    \/ BuildIndexFail
    \/ RaiseSheetNotFound
    \/ ReadRowsFail
    \/ WriteCsvFail
    \/ WriteSheet
    \/ Finish

SpecConvert == InitConvert /\ [][NextConvert]_vars

(***************************************************************************)
(* Properties of convert_xlsx_to_csv (SpecConvert)                         *)
(***************************************************************************)
\* the run ended after the workbook index was built
EndedAfterIndex == cpc = "done" /\ err.stage \in {"none", "lookup", "read", "write"}

\* position k holds the first requested name that the index does not hold
FirstAbsentAt(k) ==
    /\ k \in 1..Len(requested)
    /\ requested[k] \notin Keys(sheet_map)
    /\ \A j \in 1..(k - 1) : requested[j] \in Keys(sheet_map)

\* the run ended with the error that names the sheet and the container
FailedNaming(name) ==
    /\ err.stage = "lookup"
    /\ err.kind = "ValueError"
    /\ err.sheet = name
    /\ err.source = InputPath

\* the files written are those of the first n requested sheets, in order
WrittenUpTo(n) ==
    /\ Len(written) = n
    /\ \A i \in 1..n :
        /\ written[i].sheet = requested[i]
        /\ written[i].file = OutputName(requested[i])

\* C1 as stated: when the first requested name absent from the index is
\* at position k, the run fails with the error naming that sheet and the
\* container, nothing is written for position k or later, and the files of
\* the positions before k are written.
C1_FailsNamingFirstAbsent ==
    \A k \in 1..MaxRequested + 1 :
        (EndedAfterIndex /\ FirstAbsentAt(k)) =>
            /\ FailedNaming(requested[k])
            /\ WrittenUpTo(k - 1)

\* C1 amended: when the first requested name absent from the index is at
\* position k, the run fails, nothing is written for position k or later,
\* the files written are those of the leading positions in order, and when
\* all positions before k were written the error is the one naming the
\* sheet at k and the container.
C1_FailFastAtFirstAbsent ==
    \A k \in 1..MaxRequested + 1 :
        (EndedAfterIndex /\ FirstAbsentAt(k)) =>
            /\ err # NoError
            /\ Len(written) <= k - 1
            /\ WrittenUpTo(Len(written))
            /\ Len(written) = k - 1 => FailedNaming(requested[k])

\* the second requested name is the first absent one, the first sheet was
\* written, and the run ended with the error naming the second
C1_Witness ==
    /\ EndedAfterIndex
    /\ FirstAbsentAt(2)
    /\ WrittenUpTo(1)
    /\ FailedNaming(requested[2])
    /\ archive = "closed"

\* the <sheet> element can be indexed: it has a name, a relationship id and
\* a manifest entry with a target
HasManifestEntry(sheet) ==
    /\ rels.present
    /\ \E i \in 1..Len(rels.body) :
        rels.body[i].id = sheet.rid /\ rels.body[i].target # <<>>
Indexable(sheet) == sheet.name # <<>> /\ sheet.rid # "" /\ HasManifestEntry(sheet)

\* C7: building the index never fails over a sheet without a manifest
\* entry, nor over a missing manifest: the build fails only when the
\* workbook part is missing or a part is not well-formed; the index holds
\* exactly the names of the sheets that have an entry; and the not-found
\* error arises only in the loop, for a requested name without a path.
C7_MissingEntriesSkipped ==
    /\ err.stage = "index" =>
        ~(wb.present /\ wb.ok) \/ (rels.present /\ ~rels.ok)
    /\ (cpc = "loop" \/ EndedAfterIndex) =>
        /\ \A i \in 1..Len(wb.body) :
            Indexable(wb.body[i]) => wb.body[i].name \in Keys(sheet_map)
        /\ \A name \in Keys(sheet_map) :
            \E i \in 1..Len(wb.body) : wb.body[i].name = name /\ Indexable(wb.body[i])
    /\ err.sheet # <<>> =>
        /\ err.stage = "lookup"
        /\ \E k \in 1..Len(requested) : requested[k] = err.sheet /\ pos = k - 1
        /\ Unresolved(err.sheet)
    /\ (EndedAfterIndex /\ \A k \in 1..Len(requested) : ~Unresolved(requested[k])) =>
        err.stage # "lookup"

\* the workbook declares a sheet without a manifest entry after one with an
\* entry and before another with one, only indexed sheets were requested,
\* and the run ended without error
C7_Witness ==
    /\ cpc = "done" /\ err = NoError
    /\ Len(wb.body) >= 2
    /\ wb.body[1] = SheetElement(NameSettings, "rId2")
    /\ wb.body[2] = SheetElement(NameEvents, "rId1")
    /\ Keys(sheet_map) = {NameEvents}
    /\ requested = <<NameEvents>>
    /\ Len(written) = 1

\* C10: once opened, the archive handle is open while the block runs and
\* closed when the run has ended, whatever ended it.
C10_ArchiveClosed ==
    /\ cpc \in {"shared", "index", "loop"} => archive = "open"
    /\ (cpc = "done" /\ err.stage # "open") => archive = "closed"
    /\ (cpc = "done" /\ err.stage = "open") => archive = "unopened"

\* the run ended by a failed write after one sheet was written
C10_Witness ==
    /\ cpc = "done"
    /\ err.stage = "write"
    /\ Len(written) = 1
    /\ archive = "closed"

====
